---- MODULE Spec2Model ----
(***************************************************************************)
(* A model of advanced-vector/vector.h: RawMemory<T> (an owner of raw,     *)
(* untyped storage) and Vector<T> (the typed dynamic array on top of it).  *)
(*                                                                         *)
(* The heap is a finite pool of buffers; every buffer is a sequence of     *)
(* slots, and a slot records whether an object of type T is constructed in *)
(* it (live) and the value its bytes hold (val).  Two Vector objects are   *)
(* modelled so that the binary operations (copy/move construction and      *)
(* assignment, Swap) have a source and a destination.                      *)
(***************************************************************************)
EXTENDS Integers, Sequences, FiniteSets, TLC

\* ---------------------------------------------------------------- bounds
MaxCap == 4     \* largest capacity a single allocation may have
MaxHeap == 6    \* slots the heap holds in the runs with one array
PairHeap == 3   \* slots the heap holds in the runs with two arrays
AssignHeap == 5 \* slots the heap holds in the runs that copy-assign
MaxBufs == 3    \* distinct buffer addresses
MaxVal == 2     \* element values supplied by callers are 1..MaxVal

\* ------------------------------------------------------ the element type
Default == 0       \* the value of T()
MovedFrom == -1    \* the value a moved-from object of class type is left with
NoVal == -2        \* the bytes of a slot no object was ever written to

Values == 1..MaxVal
Vecs == {1, 2}
Bufs == 1..MaxBufs
nullptr == 0

\* kind is the element type T of the instantiation:
\*   "int": trivial; moving copies; nothing throws; default-init leaves the bytes
\*   "str": class type with a noexcept move constructor; copying may throw
\*   "cpy": class type whose move constructor may throw; copy-constructible
Kinds == {"int", "str", "cpy"}

\* room is the number of slots the heap of this run can hold: operator new
\* throws std::bad_alloc once a request does not fit
\* last names the member function whose call last changed an array or the heap
\* (a call that returns or throws with everything as it was leaves no trace);
\* crashed holds once undefined behaviour has taken the process down;
\* appended lists the values appended so far in the runs that only append;
\* pc is the line a call of EmplaceBack on array 1 has reached in the runs that
\* follow it statement by statement ("idle": no call is in progress), and
\* relocated_v is its local RawMemory
VARIABLES kind, room, heap, vec, last, crashed, appended, pc, relocated_v
vars == <<kind, room, heap, vec, last, crashed, appended, pc, relocated_v>>

\* std::is_nothrow_move_constructible_v<T> || !std::is_copy_constructible_v<T>
NothrowMove == kind \in {"int", "str"}
\* T(args...), T(const T&): constructing a value may throw
ValueCtorMayThrow == kind # "int"
\* T(T&&) may throw
MoveCtorMayThrow == kind = "cpy"
\* T() may throw
DefaultCtorMayThrow == kind = "cpy"
\* what the source of a move is left holding
MovedVal(x) == IF kind = "int" THEN x ELSE MovedFrom

\* ------------------------------------------------------------- the slots
Raw == [live |-> FALSE, val |-> NoVal]
Obj(x) == [live |-> TRUE, val |-> x]

\* a failure injected into an operation: where, and at which element
NoFail == [at |-> "none", k |-> 0]
F(at, k) == [at |-> at, k |-> k]

\* ----------------------------------------------------------- RawMemory<T>
Used(h) == LET RECURSIVE Sum(_)
               Sum(S) == IF S = {} THEN 0
                         ELSE LET b == CHOOSE x \in S : TRUE
                              IN Len(h[b]) + Sum(S \ {b})
           IN Sum(Bufs)
FreeIds(h) == {b \in Bufs : h[b] = <<>>}

\* operator new succeeds while the request fits in the heap, and throws
\* std::bad_alloc when it does not
CanAllocate(h, n) ==
    n = 0 \/ (n <= MaxCap /\ FreeIds(h) # {} /\ Used(h) + n <= room)

\* the address Allocate(n) returns
NewBuf(h, n) == IF n = 0 THEN nullptr
                ELSE CHOOSE b \in FreeIds(h) : \A c \in FreeIds(h) : b <= c

Allocate(h, n) ==
    IF n = 0 THEN h ELSE [h EXCEPT ![NewBuf(h, n)] = [i \in 1..n |-> Raw]]

\* a release that returns nothing to the heap
Deallocate_Keeps(h, b) == h

Deallocate(h, b) == IF b = nullptr THEN h ELSE [h EXCEPT ![b] = <<>>]

\* new (buf + i) T(x)
Construct(h, b, i, x) == [h EXCEPT ![b][i + 1] = Obj(x)]

\* buf[i] = x : assignment writes the value, it constructs nothing
Assign(h, b, i, x) == [h EXCEPT ![b][i + 1].val = x]

\* std::destroy_n(buf + from, n)
DestroyN(h, b, from, n) ==
    IF n = 0 THEN h
    ELSE [h EXCEPT ![b] = [j \in 1..Len(h[b]) |->
             IF (j - 1) \in from..(from + n - 1) THEN Raw ELSE h[b][j]]]

\* std::uninitialized_copy_n(src + sfrom, n, dst + dfrom)
UninitializedCopyN(h, src, sfrom, n, dst, dfrom) ==
    IF n = 0 THEN h
    ELSE [h EXCEPT ![dst] = [j \in 1..Len(h[dst]) |->
             IF (j - 1) \in dfrom..(dfrom + n - 1)
             THEN Obj(h[src][sfrom + (j - 1 - dfrom) + 1].val)
             ELSE h[dst][j]]]

\* std::uninitialized_move_n(src + sfrom, n, dst + dfrom)
UninitializedMoveN(h, src, sfrom, n, dst, dfrom) ==
    IF n = 0 THEN h
    ELSE [h EXCEPT
            ![dst] = [j \in 1..Len(h[dst]) |->
                IF (j - 1) \in dfrom..(dfrom + n - 1)
                THEN Obj(h[src][sfrom + (j - 1 - dfrom) + 1].val)
                ELSE h[dst][j]],
            ![src] = [j \in 1..Len(h[src]) |->
                IF (j - 1) \in sfrom..(sfrom + n - 1)
                THEN [h[src][j] EXCEPT !.val = MovedVal(h[src][j].val)]
                ELSE h[src][j]]]

\* a relocation by moving that throws at its k-th element
AbandonedMove(h, src, sfrom, k, dst, dfrom) ==
    DestroyN(UninitializedMoveN(h, src, sfrom, k, dst, dfrom), dst, dfrom, k)

\* std::uninitialized_copy_n(src + sfrom, n, dst + dfrom) that throws at its
\* k-th element (k < n): the k copies it made are destroyed again
AbandonedCopy(h, src, sfrom, k, dst, dfrom) ==
    DestroyN(UninitializedCopyN(h, src, sfrom, k, dst, dfrom), dst, dfrom, k)

\* a relocation that leaves the last of the n elements behind
Relocate_DropsLast(h, src, sfrom, n, dst, dfrom) ==
    IF n = 0 THEN h
    ELSE IF NothrowMove THEN UninitializedMoveN(h, src, sfrom, n - 1, dst, dfrom)
    ELSE UninitializedCopyN(h, src, sfrom, n - 1, dst, dfrom)

\* the if constexpr of lines 161, 180, 208, 253
Relocate(h, src, sfrom, n, dst, dfrom) ==
    IF NothrowMove THEN UninitializedMoveN(h, src, sfrom, n, dst, dfrom)
    ELSE UninitializedCopyN(h, src, sfrom, n, dst, dfrom)

\* a RawMemory object that owns nothing: buffer_ = nullptr, capacity_ = 0
NoRawMemory == [buf |-> nullptr, cap |-> 0]

\* --------------------------------------------------------------- Vector<T>
\* a Vector object: data_ = (buf, cap), size_
NoVector == [alive |-> FALSE, buf |-> nullptr, cap |-> 0, size |-> 0]
EmptyVector == [alive |-> TRUE, buf |-> nullptr, cap |-> 0, size |-> 0]

Size(d) == d.size
Capacity(d) == d.cap

\* the values operator[] reads at 0..size-1
Elems(h, d) == [i \in 1..d.size |-> h[d.buf][i].val]

\* what an operation hands back: the heap, the object, how it ended, its result
Res(h, d, out, ret) == [h |-> h, d |-> d, out |-> out, ret |-> ret]

\* growth by one slot instead of doubling
Grow_ByOne(size) == size + 1

\* size_ == 0 ? 1 : size_ * 2
Grow(size) == IF size = 0 THEN 1 ELSE size * 2

\* new (buf + j) T(std::move(buf[i])) within one buffer
MoveConstruct(h, b, i, j) ==
    [h EXCEPT ![b] = [k \in 1..Len(h[b]) |->
        IF k - 1 = j THEN Obj(h[b][i + 1].val)
        ELSE IF k - 1 = i THEN [h[b][k] EXCEPT !.val = MovedVal(h[b][k].val)]
        ELSE h[b][k]]]

\* std::move_backward(buf + lo, buf + hi, buf + dhi), lo <= hi:
\* move-assigns [lo, hi) onto [dhi - (hi - lo), dhi), back to front
MoveBackward(h, b, lo, hi, dhi) ==
    LET s == dhi - hi
    IN [h EXCEPT ![b] = [k \in 1..Len(h[b]) |->
           IF (k - 1) \in (lo + s)..(hi - 1 + s)
           THEN [h[b][k] EXCEPT !.val = h[b][k - s].val]
           ELSE IF (k - 1) \in lo..(hi - 1)
           THEN [h[b][k] EXCEPT !.val = MovedVal(h[b][k].val)]
           ELSE h[b][k]]]

\* the loop of Erase: *it1 = std::move(*it2) for it2 = p + 1 .. size - 1
ShiftLeft(h, b, p, size) ==
    [h EXCEPT ![b] = [k \in 1..Len(h[b]) |->
        IF (k - 1) \in p..(size - 2)
        THEN [h[b][k] EXCEPT !.val = h[b][k + 1].val]
        ELSE IF k - 1 = size - 1 /\ p < size - 1
        THEN [h[b][k] EXCEPT !.val = MovedVal(h[b][k].val)]
        ELSE h[b][k]]]

\* the failures and undefined outcomes an EmplaceBack can meet
EmplaceBackChoices(h, d) ==
    IF d.size = Capacity(d)
    THEN (IF CanAllocate(h, Grow(d.size))
          THEN {NoFail}
               \cup (IF ValueCtorMayThrow THEN {F("value", 0)} ELSE {})
               \cup (IF NothrowMove THEN {} ELSE {F("copy", k) : k \in 0..(d.size - 1)})
          ELSE {F("alloc", 0)})
    ELSE {NoFail} \cup (IF ValueCtorMayThrow THEN {F("value", 0)} ELSE {})

\* the heap when relocated_v goes out of scope in an EmplaceBack whose copy of
\* element f.k throws (size = capacity, f.at = "copy")
EmplaceBackAbandoned(h, d, x, f) ==
    LET nb == NewBuf(h, Grow(d.size))
        h2 == Construct(Allocate(h, Grow(d.size)), nb, d.size, x)
    IN AbandonedCopy(h2, d.buf, 0, f.k, nb, 0)

EmplaceBackImpl(h, d, x, f) ==
    IF d.size = Capacity(d)
    THEN IF f.at = "alloc" THEN Res(h, d, "alloc", 0)
         ELSE LET nb == NewBuf(h, Grow(d.size))
                  h1 == Allocate(h, Grow(d.size))
              IN IF f.at = "value" THEN Res(Deallocate(h1, nb), d, "value", 0)
                 ELSE LET h2 == Construct(h1, nb, d.size, x)
                      IN IF f.at = "copy"
                         \* ~RawMemory releases relocated_v
                         THEN Res(Deallocate(EmplaceBackAbandoned(h, d, x, f), nb),
                                  d, "copy", 0)
                         ELSE LET h3 == Relocate(h2, d.buf, 0, d.size, nb, 0)
                                  \* data_.Swap(relocated_v): relocated_v is the old buffer
                                  h4 == DestroyN(h3, d.buf, 0, d.cap)
                                  h5 == Deallocate(h4, d.buf)
                              IN Res(h5, [d EXCEPT !.buf = nb, !.cap = Grow(d.size),
                                                   !.size = d.size + 1], "ok", d.size)
    ELSE IF f.at = "value" THEN Res(h, d, "value", 0)
         ELSE Res(Construct(h, d.buf, d.size, x),
                  [d EXCEPT !.size = d.size + 1], "ok", d.size)

\* the failures and undefined outcomes an Emplace at index p can meet
EmplaceChoices(h, d, p) ==
    IF d.size = Capacity(d)
    THEN (IF CanAllocate(h, Grow(d.size))
          THEN {NoFail}
               \cup (IF ValueCtorMayThrow THEN {F("value", 0)} ELSE {})
               \cup (IF NothrowMove THEN {} ELSE {F("copy", k) : k \in 0..(d.size - 1)})
          ELSE {F("alloc", 0)})
    ELSE IF d.size # 0
         THEN (IF ValueCtorMayThrow THEN {F("value", 0)} ELSE {})
              \cup (IF MoveCtorMayThrow THEN {F("move", 0)} ELSE {})
              \* p = size: move_backward(end(), end() - 1, end()) is given a range
              \* whose first is past its last, which is undefined: the library
              \* either runs no iteration or runs off through memory
              \cup (IF p = d.size THEN {F("ub-noop", 0), F("ub-crash", 0)} ELSE {NoFail})
         ELSE {NoFail} \cup (IF ValueCtorMayThrow THEN {F("value", 0)} ELSE {})

\* the heap when relocated_v goes out of scope in an Emplace at p whose copy
\* of element f.k throws (size = capacity, f.at = "copy"): the throw comes from
\* the first uninitialized_copy_n when f.k < p and from the second otherwise
EmplaceAbandoned(h, d, p, x, f) ==
    LET nb == NewBuf(h, Grow(d.size))
        h2 == Construct(Allocate(h, Grow(d.size)), nb, p, x)
    IN IF f.k < p THEN AbandonedCopy(h2, d.buf, 0, f.k, nb, 0)
       ELSE AbandonedCopy(UninitializedCopyN(h2, d.buf, 0, p, nb, 0),
                          d.buf, p, f.k - p, nb, p + 1)

EmplaceImpl(h, d, p, x, f) ==
    IF d.size = Capacity(d)
    THEN IF f.at = "alloc" THEN Res(h, d, "alloc", 0)
         ELSE LET nb == NewBuf(h, Grow(d.size))
                  h1 == Allocate(h, Grow(d.size))
              IN IF f.at = "value" THEN Res(Deallocate(h1, nb), d, "value", 0)
                 ELSE LET h2 == Construct(h1, nb, p, x)
                      IN IF f.at = "copy"
                         THEN Res(Deallocate(EmplaceAbandoned(h, d, p, x, f), nb),
                                  d, "copy", 0)
                         ELSE LET h3 == Relocate(h2, d.buf, 0, p, nb, 0)
                                  h4 == Relocate(h3, d.buf, p, d.size - p, nb, p + 1)
                                  h5 == DestroyN(h4, d.buf, 0, d.cap)
                                  h6 == Deallocate(h5, d.buf)
                              IN Res(h6, [d EXCEPT !.buf = nb, !.cap = Grow(d.size),
                                                   !.size = d.size + 1], "ok", p)
    ELSE IF d.size # 0
         THEN IF f.at \in {"value", "move"} THEN Res(h, d, f.at, 0)
              ELSE LET h1 == MoveConstruct(h, d.buf, d.size - 1, d.size)
                   IN IF f.at = "ub-crash" THEN Res(h1, d, "crash", 0)
                      ELSE LET h2 == IF p <= d.size - 1
                                     THEN MoveBackward(h1, d.buf, p, d.size - 1, d.size)
                                     ELSE h1
                               h3 == Assign(h2, d.buf, p, x)
                           IN Res(h3, [d EXCEPT !.size = d.size + 1], "ok", p)
         ELSE IF f.at = "value" THEN Res(h, d, "value", 0)
              ELSE Res(Construct(h, d.buf, 0, x), [d EXCEPT !.size = d.size + 1], "ok", p)

\* the undefined outcomes an Erase at index p < size can meet: pos->~T() ends
\* the life of the object at p and the loop then move-assigns to it; with a
\* class type the assignment works on what the destroyed object left behind,
\* and either goes through or takes the process down
EraseChoices(d, p) ==
    IF kind # "int" /\ p < d.size - 1
    THEN {F("ub-assign", 0), F("ub-crash", 0)}
    ELSE {NoFail}

\* Erase at index p < size
EraseImpl(h, d, p, f) ==
    LET h1 == DestroyN(h, d.buf, p, 1)
    IN IF f.at = "ub-crash" THEN Res(h1, d, "crash", 0)
       ELSE Res(ShiftLeft(h1, d.buf, p, d.size), [d EXCEPT !.size = d.size - 1], "ok", p)

\* PopBack, size > 0
PopBackImpl(h, d) ==
    Res(DestroyN(h, d.buf, d.size - 1, 1), [d EXCEPT !.size = d.size - 1], "ok", 0)

ReserveChoices(h, d, n) ==
    IF n <= Capacity(d) THEN {NoFail}
    ELSE (IF CanAllocate(h, n)
          THEN {NoFail}
               \cup (IF NothrowMove THEN {} ELSE {F("copy", k) : k \in 0..(d.size - 1)})
          ELSE {F("alloc", 0)})

\* a Reserve that grows to at least twice the capacity
ReserveImpl_Exceeds(h, d, n, f) ==
    LET m == IF n > Capacity(d) /\ Grow(Capacity(d)) > n THEN Grow(Capacity(d)) ELSE n
    IN IF m <= Capacity(d) THEN Res(h, d, "ok", 0)
       ELSE IF f.at = "alloc" THEN Res(h, d, "alloc", 0)
       ELSE LET nb == NewBuf(h, m)
                h1 == Allocate(h, m)
            IN IF f.at = "copy" THEN Res(Deallocate(h1, nb), d, "copy", 0)
               ELSE LET h2 == Relocate(h1, d.buf, 0, d.size, nb, 0)
                        h3 == DestroyN(h2, d.buf, 0, d.size)
                        h4 == Deallocate(h3, d.buf)
                    IN Res(h4, [d EXCEPT !.buf = nb, !.cap = m], "ok", 0)

ReserveImpl(h, d, n, f) ==
    IF n <= Capacity(d) THEN Res(h, d, "ok", 0)
    ELSE IF f.at = "alloc" THEN Res(h, d, "alloc", 0)
    ELSE LET nb == NewBuf(h, n)
             h1 == Allocate(h, n)
         IN IF f.at = "copy"
            THEN Res(Deallocate(AbandonedCopy(h1, d.buf, 0, f.k, nb, 0), nb), d, "copy", 0)
            ELSE LET h2 == Relocate(h1, d.buf, 0, d.size, nb, 0)
                     h3 == DestroyN(h2, d.buf, 0, d.size)
                     \* data_.Swap(new_data); ~RawMemory releases the old buffer
                     h4 == Deallocate(h3, d.buf)
                 IN Res(h4, [d EXCEPT !.buf = nb, !.cap = n], "ok", 0)

\* the values std::uninitialized_default_construct_n may leave in the slots
\* size..n-1: T() for a class type, whatever the bytes hold for a trivial type
DefaultInits(d, n) ==
    IF kind = "int" THEN [d.size..(n - 1) -> Values \cup {Default}]
    ELSE {[i \in d.size..(n - 1) |-> Default]}

ResizeChoices(h, d, n) ==
    IF n < d.size THEN {NoFail}
    ELSE ReserveChoices(h, d, n) \cup
         (IF DefaultCtorMayThrow /\ (n <= Capacity(d) \/ CanAllocate(h, n))
          THEN {F("ctor", k) : k \in 0..(n - d.size - 1)} ELSE {})

ResizeImpl(h, d, n, init, f) ==
    IF n < d.size
    THEN Res(DestroyN(h, d.buf, n, d.size - n), [d EXCEPT !.size = n], "ok", 0)
    ELSE LET r == ReserveImpl(h, d, n, IF f.at = "ctor" THEN NoFail ELSE f)
         IN IF r.out # "ok" THEN r
            ELSE IF f.at = "ctor"
            \* the elements constructed before the failing one are destroyed again
            THEN Res(DestroyN(r.h, r.d.buf, d.size, f.k), r.d, "ctor", 0)
            ELSE Res(IF n = d.size THEN r.h
                     ELSE [r.h EXCEPT ![r.d.buf] = [j \in 1..Len(r.h[r.d.buf]) |->
                              IF (j - 1) \in d.size..(n - 1) THEN Obj(init[j - 1])
                              ELSE r.h[r.d.buf][j]]],
                     [r.d EXCEPT !.size = n], "ok", 0)

\* explicit Vector(size_t size)
CountCtorChoices(h, n) ==
    (IF CanAllocate(h, n)
     THEN {NoFail} \cup (IF DefaultCtorMayThrow THEN {F("ctor", k) : k \in 0..(n - 1)} ELSE {})
     ELSE {F("alloc", 0)})

CountCtorImpl(h, n, f) ==
    IF f.at = "alloc" THEN Res(h, NoVector, "alloc", 0)
    ELSE LET nb == NewBuf(h, n)
             h1 == Allocate(h, n)
         IN IF f.at = "ctor" THEN Res(Deallocate(h1, nb), NoVector, "ctor", 0)
            ELSE Res(IF n = 0 THEN h1 ELSE [h1 EXCEPT ![nb] = [j \in 1..n |-> Obj(Default)]],
                     [alive |-> TRUE, buf |-> nb, cap |-> n, size |-> n], "ok", 0)

\* Vector(const Vector& other)
CopyCtorChoices(h, o) ==
    (IF CanAllocate(h, o.size)
     THEN {NoFail} \cup (IF ValueCtorMayThrow THEN {F("copy", k) : k \in 0..(o.size - 1)} ELSE {})
     ELSE {F("alloc", 0)})

CopyCtorImpl(h, o, f) ==
    IF f.at = "alloc" THEN Res(h, NoVector, "alloc", 0)
    ELSE LET nb == NewBuf(h, o.size)
             h1 == Allocate(h, o.size)
         IN IF f.at = "copy" THEN Res(Deallocate(h1, nb), NoVector, "copy", 0)
            ELSE Res(UninitializedCopyN(h1, o.buf, 0, o.size, nb, 0),
                     [alive |-> TRUE, buf |-> nb, cap |-> o.size, size |-> o.size], "ok", 0)

\* a move assignment that takes the buffer and forgets its capacity
RawMemoryMoveAssign_KeepsCapacity(d, o) ==
    IF d.buf # o.buf
    THEN <<[d EXCEPT !.buf = o.buf], [o EXCEPT !.buf = nullptr, !.cap = 0]>>
    ELSE <<d, o>>

\* RawMemory& operator=(RawMemory&& rhs): the pair (this, rhs) afterwards
RawMemoryMoveAssign(d, o) ==
    IF d.buf # o.buf
    THEN <<[d EXCEPT !.buf = o.buf, !.cap = o.cap],
           [o EXCEPT !.buf = nullptr, !.cap = 0]>>
    ELSE <<d, o>>

\* a move constructor that reads other.size_ without resetting it
MoveCtorImpl_KeepsSize(o) ==
    LET r == RawMemoryMoveAssign(EmptyVector, o)
    IN <<[r[1] EXCEPT !.size = o.size], r[2]>>

\* Vector(Vector&& other): the pair (this, other) afterwards
MoveCtorImpl(o) ==
    LET r == RawMemoryMoveAssign(EmptyVector, o)
    IN <<[r[1] EXCEPT !.size = o.size], [r[2] EXCEPT !.size = 0]>>

\* a move assignment that never resets rhs.size_
MoveAssignImpl_KeepsRhsSize(d, o) ==
    IF d.buf # o.buf
    THEN LET r == RawMemoryMoveAssign(d, o)
         IN <<[r[1] EXCEPT !.size = o.size], r[2]>>
    ELSE <<d, o>>

\* Vector& operator=(Vector&& rhs): the pair (this, rhs) afterwards
MoveAssignImpl(d, o) ==
    IF d.buf # o.buf
    THEN LET r == RawMemoryMoveAssign(d, o)
         IN <<[r[1] EXCEPT !.size = o.size], [r[2] EXCEPT !.size = 0]>>
    ELSE <<d, o>>

\* an assignment that copies the prefix one slot short
AssignN_SkipsLast(h, src, dst, n) ==
    IF n = 0 THEN h
    ELSE [h EXCEPT ![dst] = [j \in 1..Len(h[dst]) |->
             IF j < n THEN [h[dst][j] EXCEPT !.val = h[src][j].val] ELSE h[dst][j]]]

\* this[i] = rhs[i] for i < n
AssignN(h, src, dst, n) ==
    IF n = 0 THEN h
    ELSE [h EXCEPT ![dst] = [j \in 1..Len(h[dst]) |->
             IF j <= n THEN [h[dst][j] EXCEPT !.val = h[src][j].val] ELSE h[dst][j]]]

\* Vector& operator=(const Vector& rhs), this != &rhs
CopyAssignChoices(h, d, o) ==
    IF o.size > Capacity(d) THEN CopyCtorChoices(h, o)
    ELSE {NoFail} \cup
         (IF ValueCtorMayThrow /\ o.size > d.size
          THEN {F("copy", k) : k \in 0..(o.size - d.size - 1)} ELSE {})

\* a copy assignment that copies and swaps whatever the sizes are
CopyAssignImpl_AlwaysCopies(h, d, o, f) ==
    IF f.at # "none" \/ ~CanAllocate(h, o.size) \/ o.size = 0 THEN Res(h, d, "alloc", 0)
    ELSE LET c == CopyCtorImpl(h, o, NoFail)
         IN Res(Deallocate(DestroyN(c.h, d.buf, 0, d.size), d.buf),
                [d EXCEPT !.buf = c.d.buf, !.cap = c.d.cap, !.size = c.d.size], "ok", 0)

CopyAssignImpl(h, d, o, f) ==
    IF o.size > Capacity(d)
    THEN LET c == CopyCtorImpl(h, o, f)
         IN IF c.out # "ok" THEN Res(h, d, c.out, 0)
            \* Swap(rhs_copy); ~Vector of rhs_copy destroys and releases what this held
            ELSE Res(Deallocate(DestroyN(c.h, d.buf, 0, d.size), d.buf),
                     [d EXCEPT !.buf = c.d.buf, !.cap = c.d.cap, !.size = c.d.size], "ok", 0)
    ELSE IF d.size > o.size
    THEN Res(DestroyN(AssignN(h, o.buf, d.buf, o.size), d.buf, o.size, d.size - o.size),
             [d EXCEPT !.size = o.size], "ok", 0)
    ELSE LET h1 == AssignN(h, o.buf, d.buf, d.size)
         IN IF f.at = "copy" THEN Res(DestroyN(h1, d.buf, d.size, f.k), d, "copy", 0)
            ELSE Res(UninitializedCopyN(h1, o.buf, d.size, o.size - d.size, d.buf, d.size),
                     [d EXCEPT !.size = o.size], "ok", 0)

\* ~Vector, then ~RawMemory
DestroyImpl(h, d) == Deallocate(DestroyN(h, d.buf, 0, d.size), d.buf)

\* ------------------------------------------------------------ the actions
Running == ~crashed /\ pc = "idle"

Usable(v) == Running /\ vec[v].alive

\* what a call on one object, with result r, does to the memory and the object
Effect(op, v, r) ==
    /\ heap' = r.h
    /\ vec' = [vec EXCEPT ![v] = r.d]
    /\ crashed' = (r.out = "crash")
    /\ last' = IF r.h = heap /\ r.d = vec[v] /\ r.out # "crash" THEN last ELSE op
    /\ UNCHANGED <<kind, room, pc, relocated_v>>

\* one object acted, with result r
Step(op, v, r) == Effect(op, v, r) /\ UNCHANGED appended

\* two objects acted: pr is the pair (vec[v], vec[o]) afterwards
Step2(op, v, o, pr) ==
    /\ heap' = heap
    /\ vec' = IF v = o THEN [vec EXCEPT ![v] = pr[1]]
              ELSE [vec EXCEPT ![v] = pr[1], ![o] = pr[2]]
    /\ last' = IF vec' = vec THEN last ELSE op
    /\ UNCHANGED <<kind, room, crashed, appended, pc, relocated_v>>

DefaultCtor(v) ==
    /\ Running /\ ~vec[v].alive
    /\ Step("Vector()", v, Res(heap, EmptyVector, "ok", 0))

CountCtor(v, n) ==
    /\ Running /\ ~vec[v].alive
    /\ \E f \in CountCtorChoices(heap, n) :
          Step("Vector(n)", v, CountCtorImpl(heap, n, f))

CopyCtor(v, o) ==
    /\ Running /\ ~vec[v].alive /\ vec[o].alive
    /\ \E f \in CopyCtorChoices(heap, vec[o]) :
          Step("Vector(const&)", v, CopyCtorImpl(heap, vec[o], f))

MoveCtor(v, o) ==
    /\ Running /\ ~vec[v].alive /\ vec[o].alive
    /\ Step2("Vector(&&)", v, o, MoveCtorImpl(vec[o]))

Destroy(v) ==
    /\ Usable(v)
    /\ Step("~Vector", v, Res(DestroyImpl(heap, vec[v]), NoVector, "ok", 0))

EmplaceBack(v, x) ==
    /\ Usable(v)
    /\ \E f \in EmplaceBackChoices(heap, vec[v]) :
          Step("EmplaceBack", v, EmplaceBackImpl(heap, vec[v], x, f))

\* void PushBack(const T& value) { EmplaceBack(value); }
PushBack(v, x) == EmplaceBack(v, x)

Emplace(v, p, x) ==
    /\ Usable(v) /\ p <= vec[v].size
    /\ \E f \in EmplaceChoices(heap, vec[v], p) :
          Step("Emplace", v, EmplaceImpl(heap, vec[v], p, x, f))

\* iterator Insert(const_iterator pos, const T& value) { return Emplace(pos, value); }
Insert(v, p, x) == Emplace(v, p, x)

Erase(v, p) ==
    /\ Usable(v) /\ p < vec[v].size
    /\ \E f \in EraseChoices(vec[v], p) :
          Step("Erase", v, EraseImpl(heap, vec[v], p, f))

PopBack(v) ==
    /\ Usable(v) /\ vec[v].size > 0
    /\ Step("PopBack", v, PopBackImpl(heap, vec[v]))

Reserve(v, n) ==
    /\ Usable(v)
    /\ \E f \in ReserveChoices(heap, vec[v], n) :
          Step("Reserve", v, ReserveImpl(heap, vec[v], n, f))

Resize(v, n) ==
    /\ Usable(v)
    /\ \E f \in ResizeChoices(heap, vec[v], n) :
       \E init \in DefaultInits(vec[v], n) :
          Step("Resize", v, ResizeImpl(heap, vec[v], n, init, f))

\* the branch of operator=(const Vector&) a call takes (lines 264, 269, 279)
CopyAssignBranch(d, o) ==
    IF o.size > Capacity(d) THEN "operator=(const&) copy-and-swap"
    ELSE IF d.size > o.size THEN "operator=(const&) shrink"
    ELSE IF o.size > d.size THEN "operator=(const&) extend"
    ELSE "operator=(const&) overwrite"

CopyAssign(v, o) ==
    /\ Usable(v) /\ vec[o].alive
    /\ IF v = o
       THEN Step("operator=(const&)", v, Res(heap, vec[v], "ok", 0))
       ELSE \E f \in CopyAssignChoices(heap, vec[v], vec[o]) :
               Step(CopyAssignBranch(vec[v], vec[o]), v,
                    CopyAssignImpl(heap, vec[v], vec[o], f))

MoveAssign(v, o) ==
    /\ Usable(v) /\ vec[o].alive
    /\ Step2("operator=(&&)", v, o, MoveAssignImpl(vec[v], vec[o]))

Swap(v, o) ==
    /\ Usable(v) /\ vec[o].alive
    /\ Step2("Swap", v, o,
             <<[vec[v] EXCEPT !.buf = vec[o].buf, !.cap = vec[o].cap, !.size = vec[o].size],
               [vec[o] EXCEPT !.buf = vec[v].buf, !.cap = vec[v].cap, !.size = vec[v].size]>>)

\* v[i] = x through T& operator[](size_t index), index < size_
SetElem(v, i, x) ==
    /\ Usable(v) /\ i < vec[v].size
    /\ Step("operator[]", v, Res(Assign(heap, vec[v].buf, i, x), vec[v], "ok", 0))

\* ------------------------------------------------- runs with two arrays
Init ==
    /\ kind \in Kinds
    /\ room = PairHeap
    /\ heap = [b \in Bufs |-> <<>>]
    /\ vec = [v \in Vecs |-> IF v = 1 THEN EmptyVector ELSE NoVector]
    /\ last = "Vector()"
    /\ crashed = FALSE
    /\ appended = <<>>
    /\ pc = "idle"
    /\ relocated_v = NoRawMemory

Next ==
    \/ \E v \in Vecs : DefaultCtor(v)
    \/ \E v \in Vecs, n \in 0..MaxCap : CountCtor(v, n)
    \/ \E v, o \in Vecs : CopyCtor(v, o)
    \/ \E v, o \in Vecs : MoveCtor(v, o)
    \/ \E v \in Vecs : Destroy(v)
    \/ \E v \in Vecs, x \in Values : PushBack(v, x)
    \/ \E v \in Vecs, x \in Values : EmplaceBack(v, x)
    \/ \E v \in Vecs, p \in 0..MaxCap, x \in Values : Emplace(v, p, x)
    \/ \E v \in Vecs, p \in 0..MaxCap, x \in Values : Insert(v, p, x)
    \/ \E v \in Vecs, p \in 0..MaxCap : Erase(v, p)
    \/ \E v \in Vecs : PopBack(v)
    \/ \E v \in Vecs, n \in 0..MaxCap : Reserve(v, n)
    \/ \E v \in Vecs, n \in 0..MaxCap : Resize(v, n)
    \/ \E v, o \in Vecs : CopyAssign(v, o)
    \/ \E v, o \in Vecs : MoveAssign(v, o)
    \/ \E v, o \in Vecs : Swap(v, o)
    \/ \E v \in Vecs, i \in 0..MaxCap, x \in Values : SetElem(v, i, x)

Spec == Init /\ [][Next]_vars

\* --------------------------------------------------- runs with one array
InitOne ==
    /\ kind \in Kinds
    /\ room = MaxHeap
    /\ heap = [b \in Bufs |-> <<>>]
    /\ vec = [v \in Vecs |-> IF v = 1 THEN EmptyVector ELSE NoVector]
    /\ last = "Vector()"
    /\ crashed = FALSE
    /\ appended = <<>>
    /\ pc = "idle"
    /\ relocated_v = NoRawMemory

NextOne ==
    \/ DefaultCtor(1)
    \/ \E n \in 0..MaxCap : CountCtor(1, n)
    \/ Destroy(1)
    \/ \E x \in Values : PushBack(1, x)
    \/ \E x \in Values : EmplaceBack(1, x)
    \/ \E p \in 0..MaxCap, x \in Values : Emplace(1, p, x)
    \/ \E p \in 0..MaxCap, x \in Values : Insert(1, p, x)
    \/ \E p \in 0..MaxCap : Erase(1, p)
    \/ PopBack(1)
    \/ \E n \in 0..MaxCap : Reserve(1, n)
    \/ \E n \in 0..MaxCap : Resize(1, n)
    \/ \E i \in 0..MaxCap, x \in Values : SetElem(1, i, x)

SpecOne == InitOne /\ [][NextOne]_vars

\* ------------------------------------------- runs that append and reserve
\* EmplaceBack on array 1, with the value noted in appended when it returns
EmplaceBackNoted(x) ==
    /\ Usable(1)
    /\ \E f \in EmplaceBackChoices(heap, vec[1]) :
          LET r == EmplaceBackImpl(heap, vec[1], x, f)
          IN /\ Effect("EmplaceBack", 1, r)
             /\ appended' = IF r.out = "ok" THEN Append(appended, x) ELSE appended

\* void PushBack(const T& value) { EmplaceBack(value); }
PushBackNoted(x) == EmplaceBackNoted(x)

NextAppend ==
    \/ \E x \in Values : PushBackNoted(x)
    \/ \E x \in Values : EmplaceBackNoted(x)
    \/ \E n \in 0..MaxCap : Reserve(1, n)

SpecAppend == InitOne /\ [][NextAppend]_vars

\* ------------------------------------- runs that only append and insert
NextGrow ==
    \/ \E x \in Values : PushBack(1, x)
    \/ \E x \in Values : EmplaceBack(1, x)
    \/ \E p \in 0..MaxCap, x \in Values : Emplace(1, p, x)
    \/ \E p \in 0..MaxCap, x \in Values : Insert(1, p, x)

SpecGrow == InitOne /\ [][NextGrow]_vars

\* --------------------------------------- runs that fill and copy-assign
InitAssign ==
    /\ kind \in Kinds
    /\ room = AssignHeap
    /\ heap = [b \in Bufs |-> <<>>]
    /\ vec = [v \in Vecs |-> EmptyVector]
    /\ last = "Vector()"
    /\ crashed = FALSE
    /\ appended = <<>>
    /\ pc = "idle"
    /\ relocated_v = NoRawMemory

NextAssign ==
    \/ \E v \in Vecs, x \in Values : PushBack(v, x)
    \/ \E v \in Vecs : PopBack(v)
    \/ \E v \in Vecs, n \in 0..MaxCap : Reserve(v, n)
    \/ \E v \in Vecs, i \in 0..MaxCap, x \in Values : SetElem(v, i, x)
    \/ \E v, o \in Vecs : CopyAssign(v, o)

SpecAssign == InitAssign /\ [][NextAssign]_vars

\* ------------- runs that change array 1, array 2 being filled to assign from
NextFit ==
    \/ \E x \in Values : PushBack(2, x)
    \/ \E x \in Values : PushBack(1, x)
    \/ \E p \in 0..MaxCap, x \in Values : Insert(1, p, x)
    \/ \E p \in 0..MaxCap : Erase(1, p)
    \/ PopBack(1)
    \/ \E n \in 0..MaxCap : Resize(1, n)
    \/ \E n \in 0..MaxCap : Reserve(1, n)
    \/ CopyAssign(1, 2)

SpecFit == InitAssign /\ [][NextFit]_vars

\* ------------------------- runs that copy array 1 and work on the copy
InitCopy ==
    /\ kind \in Kinds
    /\ room = AssignHeap
    /\ heap = [b \in Bufs |-> <<>>]
    /\ vec = [v \in Vecs |-> IF v = 1 THEN EmptyVector ELSE NoVector]
    /\ last = "Vector()"
    /\ crashed = FALSE
    /\ appended = <<>>
    /\ pc = "idle"
    /\ relocated_v = NoRawMemory

\* a call that changes the copy, array 2
Mutate ==
    \/ \E x \in Values : PushBack(2, x)
    \/ \E p \in 0..MaxCap, x \in Values : Insert(2, p, x)
    \/ \E p \in 0..MaxCap : Erase(2, p)
    \/ PopBack(2)
    \/ \E n \in 0..MaxCap : Resize(2, n)
    \/ \E n \in 0..MaxCap : Reserve(2, n)
    \/ \E i \in 0..MaxCap, x \in Values : SetElem(2, i, x)

NextCopy ==
    \/ ~vec[2].alive /\ \E x \in Values : PushBack(1, x)
    \/ CopyCtor(2, 1)
    \/ Destroy(2)
    \/ Mutate

SpecCopy == InitCopy /\ [][NextCopy]_vars

\* ------------------ runs that follow EmplaceBack statement by statement
\* what a statement of EmplaceBack leaves alone
Frame == UNCHANGED <<kind, room, crashed, appended>>

\* line 205: if (size_ == Capacity())
EmplaceBack_Enter ==
    /\ Usable(1)
    /\ pc' = IF vec[1].size = Capacity(vec[1]) THEN "206" ELSE "216"
    /\ UNCHANGED <<heap, vec, last, relocated_v>> /\ Frame

\* line 206: RawMemory<T> relocated_v(size_ == 0 ? 1 : size_ * 2);
EmplaceBack_Allocate ==
    /\ pc = "206"
    /\ IF CanAllocate(heap, Grow(vec[1].size))
       THEN /\ heap' = Allocate(heap, Grow(vec[1].size))
            /\ relocated_v' = [buf |-> NewBuf(heap, Grow(vec[1].size)),
                               cap |-> Grow(vec[1].size)]
            /\ pc' = "207"
       ELSE \* std::bad_alloc leaves the function
            /\ pc' = "idle" /\ UNCHANGED <<heap, relocated_v>>
    /\ UNCHANGED <<vec, last>> /\ Frame

\* line 207: new (relocated_v + size_) T(std::forward<Args>(args)...);
EmplaceBack_Construct(x) ==
    /\ pc = "207"
    /\ \/ /\ heap' = Construct(heap, relocated_v.buf, vec[1].size, x)
          /\ pc' = "208"
          /\ UNCHANGED relocated_v
       \/ \* the constructor throws; ~RawMemory releases relocated_v
          /\ ValueCtorMayThrow
          /\ heap' = Deallocate(heap, relocated_v.buf)
          /\ relocated_v' = NoRawMemory
          /\ pc' = "idle"
    /\ UNCHANGED <<vec, last>> /\ Frame

\* lines 208-212: std::uninitialized_move_n or std::uninitialized_copy_n
EmplaceBack_Relocate ==
    /\ pc = "208"
    /\ \/ /\ heap' = Relocate(heap, vec[1].buf, 0, vec[1].size, relocated_v.buf, 0)
          /\ pc' = "213"
          /\ UNCHANGED relocated_v
       \/ \* the copy of element k throws; ~RawMemory releases relocated_v
          /\ ~NothrowMove
          /\ \E k \in 0..(vec[1].size - 1) :
                heap' = Deallocate(AbandonedCopy(heap, vec[1].buf, 0, k, relocated_v.buf, 0),
                                   relocated_v.buf)
          /\ relocated_v' = NoRawMemory
          /\ pc' = "idle"
    /\ UNCHANGED <<vec, last>> /\ Frame

\* a reallocation that goes on without adopting the new buffer
EmplaceBack_Swap_Skips ==
    /\ pc = "213"
    /\ pc' = "214"
    /\ UNCHANGED <<heap, vec, last, relocated_v>> /\ Frame

\* line 213: data_.Swap(relocated_v);
EmplaceBack_Swap ==
    /\ pc = "213"
    /\ vec' = [vec EXCEPT ![1].buf = relocated_v.buf, ![1].cap = relocated_v.cap]
    /\ relocated_v' = [buf |-> vec[1].buf, cap |-> vec[1].cap]
    /\ pc' = "214"
    /\ UNCHANGED <<heap, last>> /\ Frame

\* line 214: std::destroy_n(relocated_v.GetAddress(), relocated_v.Capacity());
EmplaceBack_DestroyOld ==
    /\ pc = "214"
    /\ heap' = DestroyN(heap, relocated_v.buf, 0, relocated_v.cap)
    /\ pc' = "215"
    /\ UNCHANGED <<vec, last, relocated_v>> /\ Frame

\* line 215: the block ends and ~RawMemory releases what relocated_v holds
EmplaceBack_ReleaseOld ==
    /\ pc = "215"
    /\ heap' = Deallocate(heap, relocated_v.buf)
    /\ relocated_v' = NoRawMemory
    /\ pc' = "218"
    /\ UNCHANGED <<vec, last>> /\ Frame

\* line 216: new (data_ + size_) T(std::forward<Args>(args)...);
EmplaceBack_ConstructInPlace(x) ==
    /\ pc = "216"
    /\ \/ /\ heap' = Construct(heap, vec[1].buf, vec[1].size, x)
          /\ pc' = "218"
       \/ /\ ValueCtorMayThrow
          /\ pc' = "idle" /\ UNCHANGED heap
    /\ UNCHANGED <<vec, last, relocated_v>> /\ Frame

\* lines 218-219: ++size_; return data_[size_ - 1];
EmplaceBack_Increment ==
    /\ pc = "218"
    /\ vec' = [vec EXCEPT ![1].size = vec[1].size + 1]
    /\ last' = "EmplaceBack"
    /\ pc' = "idle"
    /\ UNCHANGED <<heap, relocated_v>> /\ Frame

NextSteps ==
    \/ EmplaceBack_Enter
    \/ EmplaceBack_Allocate
    \/ \E x \in Values : EmplaceBack_Construct(x)
    \/ EmplaceBack_Relocate
    \/ EmplaceBack_Swap
    \/ EmplaceBack_DestroyOld
    \/ EmplaceBack_ReleaseOld
    \/ \E x \in Values : EmplaceBack_ConstructInPlace(x)
    \/ EmplaceBack_Increment
    \/ PopBack(1)
    \/ \E n \in 0..MaxCap : Reserve(1, n)

SpecSteps == InitOne /\ [][NextSteps]_vars

\* ============================================================= the claims
Max(a, b) == IF a >= b THEN a ELSE b
InsertAt(s, p, x) == SubSeq(s, 1, p) \o <<x>> \o SubSeq(s, p + 1, Len(s))
RemoveAt(s, p) == SubSeq(s, 1, p) \o SubSeq(s, p + 2, Len(s))
\* the outcomes in which an operation ends by throwing
Throws == {"alloc", "value", "copy", "move", "ctor"}

\* C1: in every state an operation is entered from or left in, whether it
\* returned or threw, every array has Size() <= Capacity().
C1_SizeWithinCapacity ==
    \A v \in Vecs : Size(vec[v]) <= Capacity(vec[v])

\* an insertion has just filled an array of capacity 2
C1_Witness ==
    \E v \in Vecs : /\ vec[v].alive /\ last = "Emplace"
                    /\ Size(vec[v]) = 2 /\ Capacity(vec[v]) = 2

\* C2: after every operation the slots below size hold a constructed element
\* and the slots from size up to capacity hold none.
C2_LiveExactlyBelowSize ==
    \A v \in Vecs : vec[v].alive =>
        \A i \in 1..Capacity(vec[v]) :
            heap[vec[v].buf][i].live <=> (i <= Size(vec[v]))

\* C3: after N appends from an empty array, Size() = N and element i is the
\* i-th appended value, whatever reallocations happened on the way.
C3_AppendsKeepOrder ==
    /\ Size(vec[1]) = Len(appended)
    /\ Elems(heap, vec[1]) = appended

\* three values appended, the third one by growing the buffer from 2 to 4
C3_Witness ==
    /\ last = "EmplaceBack" /\ Len(appended) = 3 /\ Capacity(vec[1]) = 4
    /\ appended[1] # appended[2]

\* C4: an Insert at any index p in 0..size that does not throw yields
\* original[0..p) ++ [x] ++ original[p..size), with Size one larger, and
\* returns index p.
C4_InsertAnywhere ==
    [][\A v \in Vecs : Usable(v) =>
          \A p \in 0..Size(vec[v]), x \in Values :
          \A f \in EmplaceChoices(heap, vec[v], p) :
              LET r == EmplaceImpl(heap, vec[v], p, x, f)
              IN (r.out \notin Throws /\ Step("Emplace", v, r)) =>
                   /\ r.out = "ok"
                   /\ Elems(heap', vec'[v]) = InsertAt(Elems(heap, vec[v]), p, x)
                   /\ Size(vec'[v]) = Size(vec[v]) + 1
                   /\ r.ret = p]_vars

\* C5: an Insert at any index p in 0..size followed by Erase at p gives back
\* the original sequence.
C5_InsertEraseRoundTrip ==
    \A v \in Vecs : Usable(v) =>
        \A p \in 0..Size(vec[v]), x \in Values :
        \A f \in EmplaceChoices(heap, vec[v], p) :
            LET r == EmplaceImpl(heap, vec[v], p, x, f)
            IN r.out \notin Throws =>
                 /\ r.out = "ok"
                 /\ \A g \in EraseChoices(r.d, p) :
                       LET e == EraseImpl(r.h, r.d, p, g)
                       IN /\ e.out = "ok"
                          /\ Size(e.d) = Size(vec[v])
                          /\ Elems(e.h, e.d) = Elems(heap, vec[v])

\* C6: Erase at index p < size yields original[0..p) ++ original[p+1..size),
\* with Size one smaller, Capacity and buffer as before, and returns index p
\* (which is end when p was the last index).
C6_EraseRemovesOne ==
    [][\A v \in Vecs : Usable(v) =>
          \A p \in 0..(Size(vec[v]) - 1) :
          \A f \in EraseChoices(vec[v], p) :
              LET r == EraseImpl(heap, vec[v], p, f)
              IN Step("Erase", v, r) =>
                   /\ r.out = "ok"
                   /\ Elems(heap', vec'[v]) = RemoveAt(Elems(heap, vec[v]), p)
                   /\ Size(vec'[v]) = Size(vec[v]) - 1
                   /\ Capacity(vec'[v]) = Capacity(vec[v])
                   /\ vec'[v].buf = vec[v].buf
                   /\ r.ret = p
                   /\ (p = Size(vec[v]) - 1 => r.ret = Size(vec'[v]))]_vars

\* how an Append or Insert may change the capacity
CapacityRule(d, r) ==
    /\ Capacity(r.d) >= Capacity(d)
    /\ Capacity(r.d) # Capacity(d) => Size(d) = Capacity(d)
    /\ (Size(d) = Capacity(d) /\ r.out = "ok") => Capacity(r.d) = Max(1, 2 * Capacity(d))
    /\ r.out # "ok" => Capacity(r.d) = Capacity(d)

\* the capacity n single appends or inserts from empty lead to: 0, 1, 2, 4, 4, ...
RECURSIVE Doubled(_)
Doubled(n) == IF n = 0 THEN 0 ELSE IF n = 1 THEN 1 ELSE 2 * Doubled((n + 1) \div 2)

\* C7: an Append or Insert never lowers the capacity, changes it only when
\* entered with Size = Capacity, and then makes it max(1, 2 * Capacity); from
\* empty the capacity runs through 1, 2, 4.
C7_CapacityDoubles ==
    /\ Capacity(vec[1]) = Doubled(Size(vec[1]))
    /\ \A v \in Vecs : Usable(v) =>
        /\ \A x \in Values : \A f \in EmplaceBackChoices(heap, vec[v]) :
              CapacityRule(vec[v], EmplaceBackImpl(heap, vec[v], x, f))
        /\ \A p \in 0..Size(vec[v]), x \in Values :
           \A f \in EmplaceChoices(heap, vec[v], p) :
              CapacityRule(vec[v], EmplaceImpl(heap, vec[v], p, x, f))

\* the third of three insertions has grown the capacity from 2 to 4
C7_Witness ==
    /\ last \in {"EmplaceBack", "Emplace"}
    /\ Size(vec[1]) = 3 /\ Capacity(vec[1]) = 4

\* C8: a move assignment onto an array that owns a buffer other than the
\* source's releases that buffer.
C8_MoveAssignReleases ==
    [][\A v, o \in Vecs :
          (MoveAssign(v, o) /\ vec[v].buf # nullptr /\ vec[v].buf # vec[o].buf)
              => heap'[vec[v].buf] = <<>>]_vars

\* C9: after a = std::move(b) with a and b distinct, a has b's former elements,
\* Size and Capacity, b has Size 0 and Capacity 0, and no element was touched.
C9_MoveAssignTransfers ==
    \A v, o \in Vecs : (v # o /\ Usable(v) /\ vec[o].alive) =>
        LET pr == MoveAssignImpl(vec[v], vec[o])
        IN /\ pr[1].alive /\ pr[2].alive
           /\ Size(pr[1]) = Size(vec[o])
           /\ Capacity(pr[1]) = Capacity(vec[o])
           /\ Elems(heap, pr[1]) = Elems(heap, vec[o])
           /\ pr[1].buf = vec[o].buf
           /\ Size(pr[2]) = 0 /\ Capacity(pr[2]) = 0

\* a move assignment has handed two elements to an array that owned a buffer
C9_Witness ==
    /\ last = "operator=(&&)"
    /\ \E v, o \in Vecs :
          /\ v # o /\ vec[v].alive /\ vec[o].alive
          /\ Size(vec[v]) = 2 /\ Size(vec[o]) = 0 /\ Capacity(vec[o]) = 0
          /\ \E b \in Bufs : heap[b] # <<>> /\ b # vec[v].buf

\* C10: move construction from a leaves a with Size 0 and Capacity 0 and gives
\* the new array a's former elements, Size, Capacity and buffer.
C10_MoveCtorTransfers ==
    \A v, o \in Vecs : (Running /\ ~vec[v].alive /\ vec[o].alive) =>
        LET pr == MoveCtorImpl(vec[o])
        IN /\ pr[1].alive /\ pr[2].alive
           /\ Size(pr[1]) = Size(vec[o])
           /\ Capacity(pr[1]) = Capacity(vec[o])
           /\ Elems(heap, pr[1]) = Elems(heap, vec[o])
           /\ pr[1].buf = vec[o].buf
           /\ Size(pr[2]) = 0 /\ Capacity(pr[2]) = 0

\* a move construction has taken over an array of two elements
C10_Witness ==
    /\ last = "Vector(&&)"
    /\ \E v, o \in Vecs :
          /\ v # o /\ vec[v].alive /\ vec[o].alive
          /\ Size(vec[v]) = 2 /\ Size(vec[o]) = 0 /\ Capacity(vec[o]) = 0

\* C11: a = b with a and b distinct, when it returns, leaves a with b's Size
\* and elements and leaves b as it was, in each of the three cases:
\* b.Size > a.Capacity, b.Size <= a.Size, a.Size < b.Size <= a.Capacity.
C11_CopyAssignCopies ==
    \A v, o \in Vecs : (v # o /\ Usable(v) /\ vec[o].alive) =>
        \A f \in CopyAssignChoices(heap, vec[v], vec[o]) :
            LET r == CopyAssignImpl(heap, vec[v], vec[o], f)
            IN r.out = "ok" =>
                 /\ Size(r.d) = Size(vec[o])
                 /\ Elems(r.h, r.d) = Elems(heap, vec[o])
                 /\ Elems(r.h, vec[o]) = Elems(heap, vec[o])
                 /\ vec[o].buf # nullptr => r.h[vec[o].buf] = heap[vec[o].buf]

\* the third case has acted: a, of capacity 3 and with fewer than 2 elements
\* before, now has b's two distinct elements
C11_Witness ==
    /\ last = "operator=(const&) extend"
    /\ \E v, o \in Vecs :
          /\ v # o /\ Size(vec[v]) = 2 /\ Capacity(vec[v]) = 3 /\ Size(vec[o]) = 2
          /\ Elems(heap, vec[v]) = Elems(heap, vec[o])
          /\ heap[vec[v].buf][1].val # heap[vec[v].buf][2].val
\* C12: a copy-constructed array starts with Size = Capacity = the original's
\* Size and with equal elements, and no PushBack, Insert, Erase, PopBack,
\* Resize, Reserve or element assignment on the copy changes the original's
\* Size, Capacity, buffer or elements.
C12_CopyIsIndependent ==
    [][/\ (CopyCtor(2, 1) /\ vec'[2].alive) =>
            /\ Size(vec'[2]) = Size(vec[1]) /\ Capacity(vec'[2]) = Size(vec[1])
            /\ Elems(heap', vec'[2]) = Elems(heap, vec[1])
            /\ vec'[2].buf # vec[1].buf \/ vec[1].buf = nullptr
       /\ Mutate =>
            /\ ~crashed'
            /\ vec'[1] = vec[1]
            /\ Elems(heap', vec'[1]) = Elems(heap, vec[1])]_vars

\* C13: a Resize(n) that returns leaves Size = n and the first min(n, Size)
\* elements as they were; the elements it adds when n > Size have the
\* default value of the element type, the one Vector(count) produces.
C13_ResizeTruncatesOrPads ==
    [][\A v \in Vecs : Usable(v) =>
          \A n \in 0..MaxCap :
          \A f \in ResizeChoices(heap, vec[v], n) :
          \A init \in DefaultInits(vec[v], n) :
              LET r == ResizeImpl(heap, vec[v], n, init, f)
                  m == IF n < Size(vec[v]) THEN n ELSE Size(vec[v])
              IN (r.out = "ok" /\ Step("Resize", v, r)) =>
                   /\ Size(vec'[v]) = n
                   /\ SubSeq(Elems(heap', vec'[v]), 1, m) = SubSeq(Elems(heap, vec[v]), 1, m)
                   /\ \A i \in (Size(vec[v]) + 1)..n :
                         Elems(heap', vec'[v])[i] = Default]_vars

\* C14: Reserve(n) with n <= Capacity changes nothing; with n > Capacity, when
\* it returns, Capacity is exactly n and Size and the elements are as before.
C14_ReserveSetsCapacity ==
    \A v \in Vecs : Usable(v) =>
        \A n \in 0..MaxCap :
        \A f \in ReserveChoices(heap, vec[v], n) :
            LET r == ReserveImpl(heap, vec[v], n, f)
            IN IF n <= Capacity(vec[v])
               THEN r.out = "ok" /\ r.h = heap /\ r.d = vec[v]
               ELSE r.out = "ok" =>
                      /\ Capacity(r.d) = n
                      /\ Size(r.d) = Size(vec[v])
                      /\ Elems(r.h, r.d) = Elems(heap, vec[v])

\* a Reserve has moved two distinct elements into a buffer of capacity 3
C14_Witness ==
    /\ last = "Reserve" /\ Size(vec[1]) = 2 /\ Capacity(vec[1]) = 3
    /\ heap[vec[1].buf][1].val # heap[vec[1].buf][2].val
    /\ heap[vec[1].buf][1].live /\ heap[vec[1].buf][2].live

\* C15: an Append or Insert that fails because the new buffer cannot be
\* allocated or because constructing the new value throws (reallocating path,
\* in-place path of a non-empty array, in-place path of an empty array) leaves
\* the array and the heap exactly as they were.
C15_EarlyFailureChangesNothing ==
    \A v \in Vecs : Usable(v) =>
        \A x \in Values :
            /\ \A f \in EmplaceBackChoices(heap, vec[v]) :
                  LET r == EmplaceBackImpl(heap, vec[v], x, f)
                  IN f.at \in {"alloc", "value"} =>
                       r.out = f.at /\ r.d = vec[v] /\ r.h = heap
            /\ \A p \in 0..Size(vec[v]) :
               \A f \in EmplaceChoices(heap, vec[v], p) :
                  LET r == EmplaceImpl(heap, vec[v], p, x, f)
                  IN f.at \in {"alloc", "value"} =>
                       r.out = f.at /\ r.d = vec[v] /\ r.h = heap

\* a full array of two elements of class type: the value construction of an
\* Append or Insert can throw after the new buffer was allocated
C15_Witness ==
    /\ Usable(1) /\ Size(vec[1]) = 2 /\ Capacity(vec[1]) = 2
    /\ F("value", 0) \in EmplaceBackChoices(heap, vec[1])
    /\ F("value", 0) \in EmplaceChoices(heap, vec[1], 1)
    /\ EmplaceImpl(heap, vec[1], 1, 1, F("value", 0)).out = "value"

\* C16: with the copy-based relocation, a reallocating Append, Insert or
\* Reserve in which the copy of some existing element throws leaves the array
\* as it was before the call: same buffer, Capacity and Size, and every slot of
\* the buffer with the element and value it had.
C16_CopyFailureKeepsArray ==
    \A v \in Vecs : Usable(v) =>
        /\ \A x \in Values : \A f \in EmplaceBackChoices(heap, vec[v]) :
              LET r == EmplaceBackImpl(heap, vec[v], x, f)
              IN f.at = "copy" =>
                   /\ r.out = "copy" /\ r.d = vec[v]
                   /\ r.h[vec[v].buf] = heap[vec[v].buf]
        /\ \A x \in Values, p \in 0..Size(vec[v]) :
           \A f \in EmplaceChoices(heap, vec[v], p) :
              LET r == EmplaceImpl(heap, vec[v], p, x, f)
              IN f.at = "copy" =>
                   /\ r.out = "copy" /\ r.d = vec[v]
                   /\ r.h[vec[v].buf] = heap[vec[v].buf]
        /\ \A n \in 0..MaxCap : \A f \in ReserveChoices(heap, vec[v], n) :
              LET r == ReserveImpl(heap, vec[v], n, f)
              IN f.at = "copy" =>
                   /\ r.out = "copy" /\ r.d = vec[v]
                   /\ r.h[vec[v].buf] = heap[vec[v].buf]

\* a full array of two distinct elements whose type is relocated by copying:
\* the copy of the second element can throw in an Append, an Insert at 1 and
\* a Reserve(3)
C16_Witness ==
    /\ Usable(1) /\ ~NothrowMove /\ Size(vec[1]) = 2 /\ Capacity(vec[1]) = 2
    /\ heap[vec[1].buf][1].val # heap[vec[1].buf][2].val
    /\ F("copy", 1) \in EmplaceBackChoices(heap, vec[1])
    /\ F("copy", 1) \in EmplaceChoices(heap, vec[1], 1)
    /\ F("copy", 1) \in ReserveChoices(heap, vec[1], 3)
    /\ ReserveImpl(heap, vec[1], 3, F("copy", 1)).out = "copy"

\* a call that worked within the storage the array owned: same buffer, same
\* capacity, and no buffer acquired from the heap
WithinStorage(h, d, r) ==
    /\ r.d.buf = d.buf
    /\ Capacity(r.d) = Capacity(d)
    /\ FreeIds(r.h) = FreeIds(h)

\* C17: a mutation that fits in the current capacity (Append or Insert with
\* Size < Capacity, Erase, PopBack, Resize(n) and Reserve(n) with
\* n <= Capacity, copy assignment from an array of Size <= Capacity) keeps the
\* buffer address and the Capacity and acquires no buffer, however it ends.
C17_NoReallocationWithinCapacity ==
    Usable(1) =>
        LET d == vec[1]
        IN /\ Size(d) < Capacity(d) =>
                \A x \in Values :
                   /\ \A f \in EmplaceBackChoices(heap, d) :
                         WithinStorage(heap, d, EmplaceBackImpl(heap, d, x, f))
                   /\ \A p \in 0..Size(d) : \A f \in EmplaceChoices(heap, d, p) :
                         WithinStorage(heap, d, EmplaceImpl(heap, d, p, x, f))
           /\ \A p \in 0..(Size(d) - 1) : \A f \in EraseChoices(d, p) :
                 WithinStorage(heap, d, EraseImpl(heap, d, p, f))
           /\ Size(d) > 0 => WithinStorage(heap, d, PopBackImpl(heap, d))
           /\ \A n \in 0..Capacity(d) :
                 /\ \A f \in ResizeChoices(heap, d, n) : \A init \in DefaultInits(d, n) :
                       WithinStorage(heap, d, ResizeImpl(heap, d, n, init, f))
                 /\ \A f \in ReserveChoices(heap, d, n) :
                       WithinStorage(heap, d, ReserveImpl(heap, d, n, f))
           /\ (vec[2].alive /\ Size(vec[2]) <= Capacity(d)) =>
                 \A f \in CopyAssignChoices(heap, d, vec[2]) :
                    WithinStorage(heap, d, CopyAssignImpl(heap, d, vec[2], f))

\* a longer array has been assigned over a shorter one that had the capacity
\* for it: array 1, with capacity 3, took the two elements of array 2
C17_Witness ==
    /\ last = "operator=(const&) extend"
    /\ Capacity(vec[1]) = 3 /\ Size(vec[1]) = 2 /\ Size(vec[2]) = 2
    /\ vec[1].buf # vec[2].buf
    /\ ~heap[vec[1].buf][3].live

\* the slots of buffer b in lo..hi-1 that hold a constructed element
LiveIn(b, lo, hi) == {i \in lo..(hi - 1) : heap[b][i + 1].live}

\* the reallocating Append up to the end of the relocation: the new buffer has
\* the grown capacity; the new value is constructed in its slot size while its
\* leading slots are still raw and the old elements are in place; then the
\* leading slots are filled; all this with data_ and size_ as on entry
OrderUpToRelocation ==
    /\ pc \in {"207", "208", "213"} =>
          /\ relocated_v.cap = Grow(Size(vec[1])) /\ relocated_v.buf # vec[1].buf
          /\ Len(heap[relocated_v.buf]) = relocated_v.cap
          /\ Capacity(vec[1]) = Size(vec[1])
          /\ LiveIn(vec[1].buf, 0, Size(vec[1])) = 0..(Size(vec[1]) - 1)
    /\ pc = "207" => LiveIn(relocated_v.buf, 0, relocated_v.cap) = {}
    /\ pc = "208" => LiveIn(relocated_v.buf, 0, relocated_v.cap) = {Size(vec[1])}
    /\ pc = "213" => LiveIn(relocated_v.buf, 0, relocated_v.cap) = 0..Size(vec[1])

\* data_ is the new buffer, with the relocated elements and the new value, and
\* relocated_v is the old one; size_ is still the old size
Adopted ==
    /\ Capacity(vec[1]) = Grow(Size(vec[1]))
    /\ LiveIn(vec[1].buf, 0, Capacity(vec[1])) = 0..Size(vec[1])
    /\ relocated_v.cap = Size(vec[1])

\* size_ is incremented last: the old buffer is gone and slot size holds the
\* new value
SizeLast ==
    pc = "218" => /\ relocated_v = NoRawMemory
                  /\ Size(vec[1]) < Capacity(vec[1])
                  /\ LiveIn(vec[1].buf, 0, Capacity(vec[1])) = 0..Size(vec[1])

\* C18: in an Append entered with Size = Capacity the new buffer is allocated,
\* the new value is constructed in its slot size, the existing elements are
\* relocated into its leading slots, the new buffer is adopted, the elements of
\* the old buffer are destroyed and the old buffer is released, and Size is
\* incremented, in this order.
C18_AdoptThenDestroy ==
    /\ OrderUpToRelocation
    /\ pc = "214" => /\ Adopted
                     /\ LiveIn(relocated_v.buf, 0, relocated_v.cap) = 0..(relocated_v.cap - 1)
    /\ pc = "215" => /\ Adopted
                     /\ LiveIn(relocated_v.buf, 0, relocated_v.cap) = {}
    /\ SizeLast

\* the two elements of the old buffer have just been destroyed, after the new
\* buffer of capacity 4 was adopted
C18_Witness ==
    /\ pc = "215" /\ relocated_v.cap = 2 /\ Capacity(vec[1]) = 4
    /\ Size(vec[1]) = 2 /\ heap[relocated_v.buf] # <<>>

\* C18 as the specification states it: the elements of the old buffer are
\* destroyed before the new buffer is adopted, so that once data_ is the new
\* buffer the old one holds no constructed element.
C18_DestroyThenAdopt ==
    /\ OrderUpToRelocation
    /\ pc \in {"214", "215"} =>
          /\ Adopted
          /\ LiveIn(relocated_v.buf, 0, relocated_v.cap) = {}
    /\ SizeLast

\* C19: when the copy of an existing element throws in a reallocating Append
\* or Insert, no constructed element is left in the new buffer at the moment
\* its storage is released: the new value and, for Insert, the elements
\* already copied in front of it have been destroyed.
C19_NoLeakOnFailedReallocation ==
    \A v \in Vecs : (Usable(v) /\ Size(vec[v]) = Capacity(vec[v])) =>
        LET nb == NewBuf(heap, Grow(Size(vec[v])))
        IN \A x \in Values :
            /\ \A f \in EmplaceBackChoices(heap, vec[v]) :
                  f.at = "copy" =>
                     \A i \in 1..Grow(Size(vec[v])) :
                        ~EmplaceBackAbandoned(heap, vec[v], x, f)[nb][i].live
            /\ \A p \in 0..Size(vec[v]) :
               \A f \in EmplaceChoices(heap, vec[v], p) :
                  f.at = "copy" =>
                     \A i \in 1..Grow(Size(vec[v])) :
                        ~EmplaceAbandoned(heap, vec[v], p, x, f)[nb][i].live

\* ------------------------------ an argument that refers to an own element
\* value = v[i]: what T(std::forward<Args>(args)...) reads through the reference
\* when it runs on heap h
ArgValue(h, d, i) == h[d.buf][i + 1].val

\* EmplaceBack(v[i]): the constructor at line 207 or 216 is the first statement
\* to touch an element, so it reads the reference on the heap of the call
EmplaceBackOfElem(h, d, i, f) == EmplaceBackImpl(h, d, ArgValue(h, d, i), f)

\* Emplace(pos, v[i]): the constructor at line 179, 191 or 196 runs before
\* lines 181-185 relocate and before lines 192-194 shift
EmplaceOfElem(h, d, p, i, f) == EmplaceImpl(h, d, p, ArgValue(h, d, i), f)

PushBackElem(v, i) ==
    /\ Usable(v) /\ i < vec[v].size
    /\ \E f \in EmplaceBackChoices(heap, vec[v]) :
          Step("PushBack(v[i])", v, EmplaceBackOfElem(heap, vec[v], i, f))

InsertElem(v, p, i) ==
    /\ Usable(v) /\ p <= vec[v].size /\ i < vec[v].size
    /\ \E f \in EmplaceChoices(heap, vec[v], p) :
          Step("Insert(pos, v[i])", v, EmplaceOfElem(heap, vec[v], p, i, f))

NextAlias ==
    \/ \E x \in Values : PushBack(1, x)
    \/ \E i \in 0..MaxCap : PushBackElem(1, i)
    \/ \E p \in 0..MaxCap, i \in 0..MaxCap : InsertElem(1, p, i)
    \/ PopBack(1)
    \/ \E n \in 0..MaxCap : Reserve(1, n)

SpecAlias == InitOne /\ [][NextAlias]_vars

\* C20: PushBack(v[i]) and Insert(pos, v[i]) run to completion unless a
\* constructor or the allocation throws, and the element they add (the last
\* one, or the one at pos) holds the value v[i] had before the call, whether
\* the call reallocates or works in place.
C20_AliasedArgumentKeepsValue ==
    [][\A v \in Vecs : Usable(v) =>
          \A i \in 0..(Size(vec[v]) - 1) :
             LET was == Elems(heap, vec[v])[i + 1]
             IN /\ \A f \in EmplaceBackChoices(heap, vec[v]) :
                     LET r == EmplaceBackOfElem(heap, vec[v], i, f)
                     IN (r.out \notin Throws /\ Step("PushBack(v[i])", v, r)) =>
                           /\ r.out = "ok"
                           /\ Size(vec'[v]) = Size(vec[v]) + 1
                           /\ Elems(heap', vec'[v])[Size(vec[v]) + 1] = was
                /\ \A p \in 0..Size(vec[v]) :
                   \A f \in EmplaceChoices(heap, vec[v], p) :
                     LET r == EmplaceOfElem(heap, vec[v], p, i, f)
                     IN (r.out \notin Throws /\ Step("Insert(pos, v[i])", v, r)) =>
                           /\ r.out = "ok"
                           /\ Size(vec'[v]) = Size(vec[v]) + 1
                           /\ Elems(heap', vec'[v])[p + 1] = was]_vars

\* the same statement for every call but Insert(end(), v[i]) into spare
\* capacity, whose move_backward is undefined
AliasedArgumentKeepsValue_Defined ==
    [][\A v \in Vecs : Usable(v) =>
          \A i \in 0..(Size(vec[v]) - 1) :
             LET was == Elems(heap, vec[v])[i + 1]
             IN /\ \A f \in EmplaceBackChoices(heap, vec[v]) :
                     LET r == EmplaceBackOfElem(heap, vec[v], i, f)
                     IN (r.out \notin Throws /\ Step("PushBack(v[i])", v, r)) =>
                           /\ r.out = "ok"
                           /\ Size(vec'[v]) = Size(vec[v]) + 1
                           /\ Elems(heap', vec'[v])[Size(vec[v]) + 1] = was
                /\ \A p \in 0..Size(vec[v]) :
                   \A f \in EmplaceChoices(heap, vec[v], p) :
                     LET r == EmplaceOfElem(heap, vec[v], p, i, f)
                     IN (/\ r.out \notin Throws
                         /\ ~(p = Size(vec[v]) /\ Size(vec[v]) < Capacity(vec[v]))
                         /\ Step("Insert(pos, v[i])", v, r)) =>
                           /\ r.out = "ok"
                           /\ Size(vec'[v]) = Size(vec[v]) + 1
                           /\ Elems(heap', vec'[v])[p + 1] = was]_vars

====
